---- MODULE Spec2Model ----
(***************************************************************************)
(* Catalog service (src/main.py): items and their images, stored through   *)
(* SQLAlchemy sessions in a relational engine.  Every HTTP handler is one  *)
(* action (Spec, SpecItems, SpecList); SpecConc splits the two handlers    *)
(* that write images into the statements their session sends the engine.   *)
(***************************************************************************)
EXTENDS Integers, Sequences, FiniteSets, TLC

VARIABLES
    engine,     \* which engine DATABASE_URL selects: "sqlite" (default) or "server"
    items,      \* table items: id -> row
    images,     \* table item_images: id -> row
    autoinc,    \* the server engine's identity sequences, per table
    clock,      \* the last value datetime.now() returned
    issued,     \* history: the ids INSERT assigned, per table, in creation order
    last,       \* the response of the latest request
    sess        \* the open database sessions of in-flight image writes

vars == <<engine, items, images, autoinc, clock, issued, last, sess>>

\* ---------------------------------------------------------------- bounds

\* datetime.now() is called at most MaxClock times in a behaviour.
MaxClock == 4

\* ---------------------------------------------------------------- values

\* SQL NULL / Python None.
NULL == "NULL"

\* models/item.py ItemStatus: member names and their string values.
ItemStatus == {"AVAILABLE", "RESERVED", "SOLD"}

StatusValue(e) ==
    CASE e = "AVAILABLE" -> "available"
      [] e = "RESERVED"  -> "reserved"
      [] e = "SOLD"      -> "sold"

StatusStrings == {StatusValue(e) : e \in ItemStatus}

\* status.value if status is not None else None
StatusColumn(v) == IF v = NULL THEN NULL ELSE StatusValue(v)

Max(S) == CHOOSE m \in S : \A x \in S : x <= m

Extend(f, k, v) == [x \in DOMAIN f \cup {k} |-> IF x = k THEN v ELSE f[x]]

Remove(f, K) == [x \in DOMAIN f \ K |-> f[x]]

EmptyTable == [x \in {} |-> NULL]

\* The ids a request may name.
Ids == {1, 2}

Sessions == {"s1", "s2"}

\* A session that holds no request: SessionLocal() not yet called.
IdleSession ==
    [pc |-> "idle", op |-> "none", item_id |-> 0, image_id |-> 0,
     payload |-> [is_primary |-> NULL], loaded |-> [is_primary |-> NULL],
     clear |-> {}, locks |-> {}, wlock |-> FALSE, now |-> 0]

\* ---------------------------------------------------------------- engine

\* INSERT without an id.  Column(Integer, primary_key=True) is INTEGER PRIMARY
\* KEY without AUTOINCREMENT on SQLite: the new rowid is one more than the
\* largest rowid in the table.  A server engine draws from an identity sequence.
NextId(table, seq) ==
    IF engine = "sqlite"
    THEN IF DOMAIN table = {} THEN 1 ELSE Max(DOMAIN table) + 1
    ELSE seq + 1

\* ---------------------------------------------------------------- responses

\* What the client sees: the route, the outcome (200 / 404 / 500) and the body.
Response(op, result, body) == [op |-> op, result |-> result, body |-> body]

\* Item(id=..., status=ItemStatus(row.status) if row.status is not None else None, ...):
\* the response model rejects a null status (and an unknown status string).
ItemValid(row) == row.status \in StatusStrings

\* return Item(...): a validation error of the response model is a 500
ItemResponse(op, row) ==
    IF ItemValid(row) THEN Response(op, "ok", <<row>>)
                      ELSE Response(op, "ServerError", <<>>)

\* ---------------------------------------------------------------- payloads

ItemCreates ==
    { [name |-> "Hammer", description |-> NULL, price |-> 9,
       category |-> <<"T", "o">>, status |-> "AVAILABLE"],
      [name |-> "Saw", description |-> "steel", price |-> 5,
       category |-> <<"t", "o">>, status |-> "RESERVED"] }

ItemUpdates ==
    { [name |-> "Saw"],
      [status |-> "SOLD"],
      [status |-> NULL],
      [price |-> 5, description |-> "steel"],
      [name |-> NULL] }

\* The item payloads of the image-centred specification.
OneItemCreate == {[name |-> "Hammer", description |-> NULL, price |-> 9,
                   category |-> <<"T", "o">>, status |-> "AVAILABLE"]}

OneItemUpdate == {[status |-> "SOLD"]}

\* ---------------------------------------------------------------- items

\* POST /items
create_item(p) ==
    /\ clock < MaxClock
    /\ LET now == clock + 1
           id  == NextId(items, autoinc.items)
           row == [id |-> id, name |-> p.name, description |-> p.description,
                   price |-> p.price, category |-> p.category,
                   status |-> StatusColumn(p.status),
                   created_at |-> now, updated_at |-> now]
       IN /\ clock' = now
          /\ items' = Extend(items, id, row)
          /\ autoinc' = IF engine = "sqlite" THEN autoinc
                        ELSE [autoinc EXCEPT !.items = id]
          /\ issued' = [issued EXCEPT !.items = Append(@, id)]
          /\ last' = ItemResponse("create_item", row)
    /\ UNCHANGED <<engine, images, sess>>

\* Variant of ApplyItemUpdate: item_update.dict() without exclude_unset, seen on
\* the description, which an update that leaves it out resets to None.
ApplyItemUpdate_Unset(row, p) ==
    [f \in DOMAIN row |->
        IF f \in DOMAIN p
        THEN IF f = "status" THEN StatusColumn(p[f]) ELSE p[f]
        ELSE IF f = "description" THEN NULL ELSE row[f]]

\* for field, value in item_update.dict(exclude_unset=True).items(): setattr(...)
ApplyItemUpdate(row, p) ==
    [f \in DOMAIN row |->
        IF f \in DOMAIN p
        THEN IF f = "status" THEN StatusColumn(p[f]) ELSE p[f]
        ELSE row[f]]

\* PUT /items/{item_id}
update_item(id, p) ==
    IF id \notin DOMAIN items
    THEN /\ last' = Response("update_item", "NotFound", <<>>)
         /\ UNCHANGED <<engine, items, images, autoinc, clock, issued, sess>>
    ELSE /\ clock < MaxClock
         /\ LET now == clock + 1
                row == [ApplyItemUpdate(items[id], p) EXCEPT !.updated_at = now]
            IN /\ clock' = now
               /\ IF row.name = NULL
                  THEN \* name is nullable=False: commit raises IntegrityError
                       /\ items' = items
                       /\ last' = Response("update_item", "ServerError", <<>>)
                  ELSE /\ items' = [items EXCEPT ![id] = row]
                       /\ last' = ItemResponse("update_item", row)
         /\ UNCHANGED <<engine, images, autoinc, issued, sess>>

\* Variant of Cascade: the relationship without a cascade rule.
Cascade_None(id) == {}

\* relationship(..., cascade="all, delete-orphan"): the images that go with an item
Cascade(id) == {m \in DOMAIN images : images[m].item_id = id}

\* DELETE /items/{item_id}
delete_item(id) ==
    IF id \notin DOMAIN items
    THEN /\ last' = Response("delete_item", "NotFound", <<>>)
         /\ UNCHANGED <<engine, items, images, autoinc, clock, issued, sess>>
    ELSE /\ items' = Remove(items, {id})
         /\ images' = Remove(images, Cascade(id))
         /\ last' = Response("delete_item", "ok", <<>>)
         /\ UNCHANGED <<engine, autoinc, clock, issued, sess>>

\* GET /items/{item_id}
get_item(id) ==
    /\ last' = IF id \notin DOMAIN items
               THEN Response("get_item", "NotFound", <<>>)
               ELSE ItemResponse("get_item", items[id])
    /\ UNCHANGED <<engine, items, images, autoinc, clock, issued, sess>>

\* ---------------------------------------------------------------- images

ImageCreates ==
    { [image_url |-> "http://x/a.png", alt_text |-> NULL, is_primary |-> "true"],
      [image_url |-> "http://x/b.png", alt_text |-> "side", is_primary |-> "false"] }

ImageUpdates ==
    { [is_primary |-> "true"],
      [is_primary |-> "false"],
      [is_primary |-> NULL],
      [alt_text |-> "front"],
      [image_url |-> NULL] }

\* ItemImage(..., is_primary=img.is_primary, ...): is_primary is a bool, not Optional
ImageValid(row) == row.is_primary \in {"true", "false"}

\* return ItemImage(...): a validation error of the response model is a 500
ImageResponse(op, row) ==
    IF ImageValid(row) THEN Response(op, "ok", <<row>>)
                       ELSE Response(op, "ServerError", <<>>)

\* Variant of PrimariesOf: the filter compares ItemImageORM.id, not item_id, with
\* the item's id.
PrimariesOf_WrongColumn(tbl, item_id, except) ==
    {m \in DOMAIN tbl : /\ m = item_id
                        /\ m \notin except
                        /\ tbl[m].is_primary = "true"}

\* filter(item_id == item_id, [id != image_id,] is_primary == True): the rows the
\* bulk UPDATE matches in table tbl; except is {} on create and {image_id} on update
PrimariesOf(tbl, item_id, except) ==
    {m \in DOMAIN tbl : /\ tbl[m].item_id = item_id
                        /\ m \notin except
                        /\ tbl[m].is_primary = "true"}

\* .update({"is_primary": False}) on the rows S: no other column is written
ClearPrimary(tbl, S) ==
    [m \in DOMAIN tbl |-> IF m \in S THEN [tbl[m] EXCEPT !.is_primary = "false"]
                                     ELSE tbl[m]]

\* if image.is_primary: / if image_update.is_primary:
Truthy(v) == v = "true"

\* ItemImageORM(item_id=..., image_url=..., ..., created_at=now, updated_at=now)
NewImage(id, item_id, p, now) ==
    [id |-> id, item_id |-> item_id, image_url |-> p.image_url,
     alt_text |-> p.alt_text, is_primary |-> p.is_primary,
     created_at |-> now, updated_at |-> now]

\* POST /items/{item_id}/images
create_item_image(item_id, p) ==
    IF item_id \notin DOMAIN items
    THEN /\ last' = Response("create_item_image", "NotFound", <<>>)
         /\ UNCHANGED <<engine, items, images, autoinc, clock, issued, sess>>
    ELSE /\ clock < MaxClock
         /\ LET now     == clock + 1
                cleared == IF Truthy(p.is_primary)
                           THEN ClearPrimary(images, PrimariesOf(images, item_id, {}))
                           ELSE images
                id      == NextId(images, autoinc.images)
                row     == NewImage(id, item_id, p, now)
            IN /\ clock' = now
               /\ images' = Extend(cleared, id, row)
               /\ autoinc' = IF engine = "sqlite" THEN autoinc
                             ELSE [autoinc EXCEPT !.images = id]
               /\ issued' = [issued EXCEPT !.images = Append(@, id)]
               /\ last' = ImageResponse("create_item_image", row)
         /\ UNCHANGED <<engine, items, sess>>

\* for field, value in image_update.dict(exclude_unset=True).items(): setattr(...)
ApplyImageUpdate(row, p) ==
    [f \in DOMAIN row |-> IF f \in DOMAIN p THEN p[f] ELSE row[f]]

\* image_update.is_primary: None when the field is not in the payload
PayloadPrimary(p) == IF "is_primary" \in DOMAIN p THEN p.is_primary ELSE NULL

\* Variant of HasImage: the lookup by image id alone, whatever item it belongs to.
HasImage_AnyItem(tbl, item_id, image_id) == image_id \in DOMAIN tbl

\* filter(ItemImageORM.id == image_id, ItemImageORM.item_id == item_id).first()
HasImage(tbl, item_id, image_id) ==
    image_id \in DOMAIN tbl /\ tbl[image_id].item_id = item_id

\* PUT /items/{item_id}/images/{image_id}
update_item_image(item_id, image_id, p) ==
    IF ~HasImage(images, item_id, image_id)
    THEN /\ last' = Response("update_item_image", "NotFound", <<>>)
         /\ UNCHANGED <<engine, items, images, autoinc, clock, issued, sess>>
    ELSE /\ clock < MaxClock
         /\ LET now     == clock + 1
                row     == [ApplyImageUpdate(images[image_id], p)
                               EXCEPT !.updated_at = now]
                cleared == IF Truthy(PayloadPrimary(p))
                           THEN ClearPrimary(images,
                                    PrimariesOf(images, item_id, {image_id}))
                           ELSE images
            IN /\ clock' = now
               /\ IF row.image_url = NULL
                  THEN \* image_url is nullable=False: commit raises IntegrityError
                       /\ images' = images
                       /\ last' = Response("update_item_image", "ServerError", <<>>)
                  ELSE /\ images' = [cleared EXCEPT ![image_id] = row]
                       /\ last' = ImageResponse("update_item_image", row)
         /\ UNCHANGED <<engine, items, autoinc, issued, sess>>

\* DELETE /items/{item_id}/images/{image_id}
delete_item_image(item_id, image_id) ==
    IF ~HasImage(images, item_id, image_id)
    THEN /\ last' = Response("delete_item_image", "NotFound", <<>>)
         /\ UNCHANGED <<engine, items, images, autoinc, clock, issued, sess>>
    ELSE /\ images' = Remove(images, {image_id})
         /\ last' = Response("delete_item_image", "ok", <<>>)
         /\ UNCHANGED <<engine, items, autoinc, clock, issued, sess>>

\* GET /items/{item_id}/images/{image_id}
get_item_image(item_id, image_id) ==
    /\ last' = IF ~HasImage(images, item_id, image_id)
               THEN Response("get_item_image", "NotFound", <<>>)
               ELSE ImageResponse("get_item_image", images[image_id])
    /\ UNCHANGED <<engine, items, images, autoinc, clock, issued, sess>>

\* The rows of tbl with ids in S, in id order (the order the engine scans them).
RECURSIVE RowsInOrder(_, _)
RowsInOrder(tbl, S) ==
    IF S = {} THEN <<>>
    ELSE LET lo == CHOOSE x \in S : \A y \in S : x <= y
         IN <<tbl[lo]>> \o RowsInOrder(tbl, S \ {lo})

Min(a, b) == IF a <= b THEN a ELSE b

\* query.offset(offset).limit(limit).all()
Page(rows, offset, limit) == SubSeq(rows, offset + 1, Min(Len(rows), offset + limit))

\* The (limit, offset) pairs requests use; limit defaults to 50, offset to 0.
Windows == {<<50, 0>>, <<1, 1>>}

\* GET /items/{item_id}/images?is_primary=&limit=&offset=
get_item_images(item_id, is_primary, w) ==
    /\ last' =
         IF item_id \notin DOMAIN items
         THEN Response("get_item_images", "NotFound", <<>>)
         ELSE LET match == {m \in DOMAIN images :
                              /\ images[m].item_id = item_id
                              /\ is_primary # NULL => images[m].is_primary = is_primary}
                  page  == Page(RowsInOrder(images, match), w[2], w[1])
              IN IF \A k \in 1 .. Len(page) : ImageValid(page[k])
                 THEN Response("get_item_images", "ok", page)
                 ELSE Response("get_item_images", "ServerError", <<>>)
    /\ UNCHANGED <<engine, items, images, autoinc, clock, issued, sess>>

\* ---------------------------------------------------------------- listing

\* The case folding of ILIKE, on the letters the categories use.
Lower(c) ==
    CASE c = "T" -> "t"
      [] c = "O" -> "o"
      [] c = "Y" -> "y"
      [] OTHER   -> c

LowerText(t) == [k \in 1 .. Len(t) |-> Lower(t[k])]

\* SQL LIKE: % matches any run of characters, _ any one character, every other
\* character itself; the pattern must match the whole text.
RECURSIVE LikeMatch(_, _)
LikeMatch(t, pat) ==
    IF pat = <<>> THEN t = <<>>
    ELSE IF Head(pat) = "%"
         THEN LikeMatch(t, Tail(pat)) \/ (t # <<>> /\ LikeMatch(Tail(t), pat))
         ELSE /\ t # <<>>
              /\ Head(pat) = "_" \/ Head(pat) = Head(t)
              /\ LikeMatch(Tail(t), Tail(pat))

\* ItemORM.category.ilike(category): the request's text is the pattern
ilike(column, pattern) == LikeMatch(LowerText(column), LowerText(pattern))

\* A query parameter that is not None.
Has(q, f) == f \in DOMAIN q

\* The filters of get_items, each applied when its parameter is given.
ItemMatches(row, q) ==
    /\ Has(q, "category") => ilike(row.category, q.category)
    /\ Has(q, "status") => row.status = StatusValue(q.status)
    /\ Has(q, "min_price") => row.price >= q.min_price
    /\ Has(q, "max_price") => row.price <= q.max_price

\* return [Item(...) for i in items]
ItemListResponse(op, rows) ==
    IF \A k \in 1 .. Len(rows) : ItemValid(rows[k])
    THEN Response(op, "ok", rows)
    ELSE Response(op, "ServerError", <<>>)

\* GET /items?category=&status=&min_price=&max_price=&limit=&offset=
get_items(q) ==
    /\ LET match == {id \in DOMAIN items : ItemMatches(items[id], q)}
       IN last' = ItemListResponse("get_items",
                     Page(RowsInOrder(items, match), q.offset, q.limit))
    /\ UNCHANGED <<engine, items, images, autoinc, clock, issued, sess>>

\* GET /items/category/{category}
get_items_by_category(category) ==
    /\ LET match == {id \in DOMAIN items : ilike(items[id].category, category)}
       IN last' = ItemListResponse("get_items_by_category",
                     RowsInOrder(items, match))
    /\ UNCHANGED <<engine, items, images, autoinc, clock, issued, sess>>

\* GET /items/status/{status}
get_items_by_status(status) ==
    /\ LET match == {id \in DOMAIN items : items[id].status = StatusValue(status)}
       IN last' = ItemListResponse("get_items_by_status",
                     RowsInOrder(items, match))
    /\ UNCHANGED <<engine, items, images, autoinc, clock, issued, sess>>

\* The items and the queries of the listing specification.
ListCreates ==
    { [name |-> "Hammer", description |-> NULL, price |-> 9,
       category |-> <<"T", "o">>, status |-> "AVAILABLE"],
      [name |-> "Saw", description |-> "steel", price |-> 5,
       category |-> <<"t", "o">>, status |-> "RESERVED"],
      [name |-> "Robot", description |-> NULL, price |-> 9,
       category |-> <<"t", "o", "y">>, status |-> "AVAILABLE"] }

Patterns == {<<"t", "o">>, <<"T", "O">>, <<"t">>, <<"%">>, <<"t", "_">>}

Queries ==
    UNION { { [limit |-> w[1], offset |-> w[2]],
              [status |-> "AVAILABLE", min_price |-> 6,
               limit |-> w[1], offset |-> w[2]],
              [category |-> <<"t", "o">>, max_price |-> 6,
               limit |-> w[1], offset |-> w[2]] }
            \cup { [category |-> c, limit |-> w[1], offset |-> w[2]] :
                     c \in Patterns }
          : w \in Windows }

\* ---------------------------------------------------------------- sessions
\* The two image writes, statement by statement.  get_db gives every request a
\* session of its own (autocommit=False, autoflush=False): the SELECT reads
\* committed rows, the bulk UPDATE runs in the session's transaction when it is
\* issued, the INSERT or UPDATE of the handler's own row is flushed by db.commit().
\* On SQLite a transaction that writes holds the database's write lock until it
\* commits; a server engine (READ COMMITTED) locks the rows a statement writes.

Others(s) == Sessions \ {s}

SetSession(s, r) == sess' = [sess EXCEPT ![s] = r]

\* A request enters its handler with a fresh session.
Begin(s, op, item_id, image_id, p) ==
    /\ sess[s].pc = "idle"
    /\ SetSession(s, [IdleSession EXCEPT !.pc = "begun", !.op = op,
                         !.item_id = item_id, !.image_id = image_id,
                         !.payload = p])
    /\ UNCHANGED <<engine, items, images, autoinc, clock, issued, last>>

Finish(s) == [sess[s] EXCEPT !.pc = "done", !.locks = {}, !.wlock = FALSE]

\* create_item_image: the item check, then now = datetime.now()
\* update_item_image: the SELECT of the image, then the setattr loop
Read(s) ==
    /\ sess[s].pc = "begun"
    /\ IF sess[s].op = "create_item_image"
       THEN IF sess[s].item_id \notin DOMAIN items
            THEN /\ SetSession(s, Finish(s))
                 /\ last' = Response("create_item_image", "NotFound", <<>>)
                 /\ UNCHANGED clock
            ELSE /\ clock < MaxClock
                 /\ clock' = clock + 1
                 /\ SetSession(s, [sess[s] EXCEPT !.pc = "read", !.now = clock + 1])
                 /\ UNCHANGED last
       ELSE IF ~HasImage(images, sess[s].item_id, sess[s].image_id)
            THEN /\ SetSession(s, Finish(s))
                 /\ last' = Response("update_item_image", "NotFound", <<>>)
                 /\ UNCHANGED clock
            ELSE /\ SetSession(s, [sess[s] EXCEPT !.pc = "read",
                                      !.loaded = images[sess[s].image_id]])
                 /\ UNCHANGED <<clock, last>>
    /\ UNCHANGED <<engine, items, images, autoinc, issued>>

\* The rows the session's bulk UPDATE matches among the committed rows.
ClearTargets(s) ==
    PrimariesOf(images, sess[s].item_id,
                IF sess[s].op = "update_item_image" THEN {sess[s].image_id} ELSE {})

\* Whether the session may write: no other transaction holds the write lock
\* (SQLite), or a lock on one of the rows (server engine).
CanWrite(s, rows) ==
    IF engine = "sqlite"
    THEN \A t \in Others(s) : ~sess[t].wlock
    ELSE \A t \in Others(s) : sess[t].locks \cap rows = {}

\* if image.is_primary: db.query(...).filter(...).update({"is_primary": False})
Clear(s) ==
    /\ sess[s].pc = "read"
    /\ IF Truthy(PayloadPrimary(sess[s].payload))
       THEN /\ CanWrite(s, ClearTargets(s))
            /\ SetSession(s, [sess[s] EXCEPT !.pc = "cleared",
                                 !.clear = ClearTargets(s),
                                 !.locks = ClearTargets(s),
                                 !.wlock = (engine = "sqlite")])
       ELSE SetSession(s, [sess[s] EXCEPT !.pc = "cleared"])
    /\ UNCHANGED <<engine, items, images, autoinc, clock, issued, last>>

\* The UPDATE the flush sends for the handler's own row: the columns whose value
\* differs from the loaded one, and updated_at.
FlushUpdate(cur, loaded, p, now) ==
    [f \in DOMAIN cur |->
        IF f = "updated_at" THEN now
        ELSE IF f \in DOMAIN p /\ p[f] # loaded[f] THEN p[f]
        ELSE cur[f]]

\* db.add(db_image); db.commit(); db.refresh(db_image); return ItemImage(...)
Commit(s) ==
    /\ sess[s].pc = "cleared"
    /\ IF sess[s].op = "create_item_image"
       THEN /\ CanWrite(s, {})
            /\ LET id  == NextId(images, autoinc.images)
                   row == NewImage(id, sess[s].item_id, sess[s].payload, sess[s].now)
               IN /\ images' = Extend(ClearPrimary(images, sess[s].clear), id, row)
                  /\ autoinc' = IF engine = "sqlite" THEN autoinc
                                ELSE [autoinc EXCEPT !.images = id]
                  /\ issued' = [issued EXCEPT !.images = Append(@, id)]
                  /\ last' = ImageResponse("create_item_image", row)
            /\ UNCHANGED clock
       ELSE /\ CanWrite(s, {sess[s].image_id})
            /\ clock < MaxClock
            /\ clock' = clock + 1
            /\ LET row == FlushUpdate(images[sess[s].image_id], sess[s].loaded,
                                      sess[s].payload, clock + 1)
               IN IF row.image_url = NULL
                  THEN /\ images' = images
                       /\ last' = Response("update_item_image", "ServerError", <<>>)
                  ELSE /\ images' = [ClearPrimary(images, sess[s].clear)
                                        EXCEPT ![sess[s].image_id] = row]
                       /\ last' = ImageResponse("update_item_image", row)
            /\ UNCHANGED <<autoinc, issued>>
    /\ SetSession(s, Finish(s))
    /\ UNCHANGED <<engine, items>>

AllIdle == \A s \in Sessions : sess[s].pc = "idle"

\* ---------------------------------------------------------------- specification

Init ==
    /\ engine \in {"sqlite", "server"}
    /\ items = EmptyTable
    /\ images = EmptyTable
    /\ autoinc = [items |-> 0, images |-> 0]
    /\ clock = 0
    /\ issued = [items |-> <<>>, images |-> <<>>]
    /\ last = Response("none", "ok", <<>>)
    /\ sess = [s \in Sessions |-> IdleSession]

Next ==
    \/ \E p \in OneItemCreate : create_item(p)
    \/ \E id \in Ids, p \in OneItemUpdate : update_item(id, p)
    \/ \E id \in Ids : delete_item(id)
    \/ \E id \in Ids : get_item(id)
    \/ \E id \in Ids, p \in ImageCreates : create_item_image(id, p)
    \/ \E id \in Ids, m \in Ids, p \in ImageUpdates : update_item_image(id, m, p)
    \/ \E id \in Ids, m \in Ids : delete_item_image(id, m)
    \/ \E id \in Ids, m \in Ids : get_item_image(id, m)
    \/ \E id \in Ids, f \in {NULL, "true", "false"}, w \in Windows :
          get_item_images(id, f, w)

Spec == Init /\ [][Next]_vars

\* The item-centred specification: every item payload, one image payload.
OneImageCreate ==
    {[image_url |-> "http://x/a.png", alt_text |-> NULL, is_primary |-> "true"]}

NextItems ==
    \/ \E p \in ItemCreates : create_item(p)
    \/ \E id \in Ids, p \in ItemUpdates : update_item(id, p)
    \/ \E id \in Ids : delete_item(id)
    \/ \E id \in Ids : get_item(id)
    \/ \E id \in Ids, p \in OneImageCreate : create_item_image(id, p)

SpecItems == Init /\ [][NextItems]_vars

NextList ==
    \/ \E p \in ListCreates : create_item(p)
    \/ \E id \in Ids : delete_item(id)
    \/ \E q \in Queries : get_items(q)
    \/ \E c \in Patterns : get_items_by_category(c)
    \/ \E e \in ItemStatus : get_items_by_status(e)

SpecList == Init /\ [][NextList]_vars

\* The concurrent specification: complete requests fill the tables while no
\* session is open, then each session carries one image write.
NextConc ==
    \/ AllIdle /\ \E p \in OneItemCreate : create_item(p)
    \/ AllIdle /\ \E id \in Ids, p \in ImageCreates : create_item_image(id, p)
    \/ \E s \in Sessions, id \in Ids, p \in ImageCreates :
          Begin(s, "create_item_image", id, 0, p)
    \/ \E s \in Sessions, id \in Ids, m \in Ids, p \in ImageUpdates :
          Begin(s, "update_item_image", id, m, p)
    \/ \E s \in Sessions : Read(s)
    \/ \E s \in Sessions : Clear(s)
    \/ \E s \in Sessions : Commit(s)

SpecConc == Init /\ [][NextConc]_vars

\* ---------------------------------------------------------------- properties

ItemOf(tbl) == {tbl[m].item_id : m \in DOMAIN tbl}

PrimaryCount(tbl, i) ==
    Cardinality({m \in DOMAIN tbl : tbl[m].item_id = i /\ tbl[m].is_primary = "true"})

\* C1: in every state reached by complete requests, every item has at most one
\* image with is_primary = true.
C1_AtMostOnePrimary == \A i \in ItemOf(images) : PrimaryCount(images, i) <= 1

\* An item with two images: the older one was created primary and is cleared, the
\* other one was just made primary by a request.
C1_Witness ==
    /\ last.op \in {"create_item_image", "update_item_image"}
    /\ last.result = "ok"
    /\ last.body[1].is_primary = "true"
    /\ \E m \in DOMAIN images :
          /\ m # last.body[1].id
          /\ images[m].item_id = last.body[1].item_id
          /\ images[m].is_primary = "false"
          /\ images[m].image_url = "http://x/a.png"

\* C3: every image belongs to a stored item; a successful delete_item(id) removes
\* the item and all its images, so that no (id, image) pair is found afterwards,
\* and leaves the other items and the images of other items as they were.
C3_CascadeDelete ==
    [][ /\ \A m \in DOMAIN images' : images'[m].item_id \in DOMAIN items'
        /\ \A id \in Ids :
             (id \in DOMAIN items /\ delete_item(id)) =>
                /\ last'.result = "ok"
                /\ id \notin DOMAIN items'
                /\ \A m \in DOMAIN images' : images'[m].item_id # id
                /\ \A m \in DOMAIN images :
                      images[m].item_id = id =>
                         ~(m \in DOMAIN images' /\ images'[m].item_id = id)
                /\ \A j \in DOMAIN items \ {id} :
                      j \in DOMAIN items' /\ items'[j] = items[j]
                /\ \A m \in DOMAIN images :
                      images[m].item_id # id =>
                         m \in DOMAIN images' /\ images'[m] = images[m] ]_vars

\* An item was deleted after images were attached, and another item with an image
\* of its own is still stored.
C3_Witness ==
    /\ last.op = "delete_item"
    /\ last.result = "ok"
    /\ Len(issued.items) = 2
    /\ Len(issued.images) = 2
    /\ Cardinality(DOMAIN items) = 1
    /\ Cardinality(DOMAIN images) = 1

StrictlyIncreasingFromOne(ids) ==
    /\ ids # <<>> => ids[1] = 1
    /\ \A k \in 1 .. Len(ids) - 1 : ids[k] < ids[k + 1]

\* C4: the ids create_item (and create_item_image) assigns start at 1, increase
\* strictly in creation order and are never reused, deletions included.
C4_IdsNeverReused ==
    /\ StrictlyIncreasingFromOne(issued.items)
    /\ StrictlyIncreasingFromOne(issued.images)

\* C5: a successful create or update of an image with is_primary = true leaves that
\* image primary and every other image of the same item with is_primary = false.
C5_OthersFalse ==
    [][ \A id \in Ids, m \in Ids :
          /\ \A p \in ImageCreates :
               (Truthy(p.is_primary) /\ create_item_image(id, p)
                  /\ last'.result = "ok") =>
                 \A k \in DOMAIN images' :
                    images'[k].item_id = id =>
                       images'[k].is_primary =
                          (IF k = last'.body[1].id THEN "true" ELSE "false")
          /\ \A p \in ImageUpdates :
               (Truthy(PayloadPrimary(p)) /\ update_item_image(id, m, p)
                  /\ last'.result = "ok") =>
                 \A k \in DOMAIN images' :
                    images'[k].item_id = id =>
                       images'[k].is_primary = (IF k = m THEN "true" ELSE "false") ]_vars

\* The request does not name a stored item / a stored (item, image) pair.
NoItem(id) == id \notin DOMAIN items

NoPair(id, m) == ~(m \in DOMAIN images /\ images[m].item_id = id)

NotFoundUnchanged ==
    /\ last'.result = "NotFound"
    /\ items' = items
    /\ images' = images

\* The step is a request that names an absent item, or an (item, image) pair that
\* is not stored.
AbsentRequest ==
    \E id \in Ids :
       \/ /\ NoItem(id)
          /\ \/ \E p \in ItemUpdates \cup OneItemUpdate : update_item(id, p)
             \/ delete_item(id)
             \/ get_item(id)
             \/ \E p \in ImageCreates : create_item_image(id, p)
             \/ \E f \in {NULL, "true", "false"}, w \in Windows :
                   get_item_images(id, f, w)
       \/ \E m \in Ids :
             /\ NoPair(id, m)
             /\ \/ \E p \in ImageUpdates : update_item_image(id, m, p)
                \/ delete_item_image(id, m)
                \/ get_item_image(id, m)

\* C7: a request that names an absent item, or an (item, image) pair that is not
\* stored (an image of another item included), answers NotFound and changes
\* neither table.
C7_NotFoundUnchanged == [][NotFoundUnchanged \/ ~AbsentRequest]_vars

\* A write to an image answered NotFound while two items and an image are stored:
\* the image's id under the other item is such a request.
C7_Witness ==
    /\ last.op = "update_item_image"
    /\ last.result = "NotFound"
    /\ Cardinality(DOMAIN items) = 2
    /\ Cardinality(DOMAIN images) = 1

\* C10: created_at is set at creation, equal to updated_at, and never changes; a
\* request that changes a field of a record sets its updated_at to the request's
\* time, also when the change is the clearing of is_primary.
Stamped(tbl, tblNext) ==
    \A k \in DOMAIN tblNext :
       IF k \in DOMAIN tbl
       THEN /\ tblNext[k].created_at = tbl[k].created_at
            /\ tblNext[k] # tbl[k] =>
                  (clock' > clock /\ tblNext[k].updated_at = clock')
       ELSE /\ tblNext[k].created_at = tblNext[k].updated_at
            /\ tblNext[k].created_at = clock'

C10_Timestamps == [][Stamped(items, items') /\ Stamped(images, images')]_vars

\* What setattr stores for field f of an item payload.
StoredValue(f, v) == IF f = "status" /\ v # NULL THEN StatusValue(v) ELSE v

UpdateFrame(id, p) ==
    /\ images' = images
    /\ DOMAIN items' = DOMAIN items
    /\ \A j \in DOMAIN items \ {id} : items'[j] = items[j]
    /\ \A f \in DOMAIN items[id] \ (DOMAIN p \cup {"updated_at"}) :
          items'[id][f] = items[id][f]
    /\ \/ last'.result = "ServerError" /\ items' = items
       \/ /\ \A f \in DOMAIN p : items'[id][f] = StoredValue(f, p[f])
          /\ items'[id].updated_at = clock'
          /\ clock' > clock

\* C6: update_item of a stored item changes only fields of the payload and
\* updated_at: the fields the payload leaves out, id and created_at keep their
\* values, no other item and no image changes; an accepted update stores the
\* payload's values and the request's time.
C6_UpdateFrame ==
    [][ last'.op = "update_item" =>
          \A id \in Ids :
             id \in DOMAIN items =>
                \A p \in ItemUpdates : update_item(id, p) => UpdateFrame(id, p) ]_vars

\* An accepted update of one of two stored items, which has an image; the payload's
\* price and description are stored and the name and status are the created ones.
C6_Witness ==
    /\ last.op = "update_item"
    /\ last.result = "ok"
    /\ Cardinality(DOMAIN items) = 2
    /\ images # EmptyTable
    /\ last.body[1].price = 5
    /\ last.body[1].name = "Hammer"
    /\ last.body[1].status = "available"
    /\ last.body[1].created_at < last.body[1].updated_at

\* C8: every stored item's status is one of available, reserved, sold.
C8_StatusValid == \A id \in DOMAIN items : items[id].status \in StatusStrings

\* Case-insensitive equality of two texts.
EqualsIgnoreCase(a, b) == LowerText(a) = LowerText(b)

\* The listing C9 describes: the stored items that satisfy every filter given, the
\* category filter by case-insensitive equality, then the window.
ExpectedItems(q) ==
    LET match == {id \in DOMAIN items :
                    /\ Has(q, "category") =>
                          EqualsIgnoreCase(items[id].category, q.category)
                    /\ Has(q, "status") => items[id].status = StatusValue(q.status)
                    /\ Has(q, "min_price") => items[id].price >= q.min_price
                    /\ Has(q, "max_price") => items[id].price <= q.max_price}
        rows  == RowsInOrder(items, match)
    IN [k \in 1 .. Min(q.limit, Len(rows) - Min(q.offset, Len(rows))) |->
          rows[q.offset + k]]

\* C9: get_items returns the stored items that satisfy all given filters, the
\* category by case-insensitive equality with the whole text, and of these the
\* elements offset .. offset+limit-1.
C9_ListItems ==
    [][ last'.op = "get_items" =>
          \A q \in Queries :
             get_items(q) => (last'.result = "ok" /\ last'.body = ExpectedItems(q)) ]_vars

\* Session s carried a request that sets an image of item i primary.
SetsPrimary(s, i) ==
    /\ sess[s].pc = "done"
    /\ sess[s].item_id = i
    /\ Truthy(PayloadPrimary(sess[s].payload))

\* C2: when two requests that set an image of the same item primary run
\* concurrently, each in its own session, every interleaving of their statements
\* ends with at most one primary image of that item.
C2_ConcurrentSetPrimary ==
    \A i \in Ids :
       (\A s \in Sessions : SetsPrimary(s, i)) => PrimaryCount(images, i) <= 1

====
